---- MODULE Spec2Model ----
(***************************************************************************)
(* Model of wiki-wallpaper.py: the resolver (fetch_potd and its two        *)
(* helpers), the downloader (download_image, create_fallback_image), the   *)
(* layout engine (create_wallpaper with its nested get_wrapped_text) and   *)
(* the pipeline (main).                                                    *)
(*                                                                         *)
(* Each Python function is a procedure with its own program counter:       *)
(*   pc   main (the resolver's three API calls are its first steps)        *)
(*   dpc  download_image / create_fallback_image                           *)
(*   cpc  create_wallpaper                                                 *)
(*                                                                         *)
(* A string is a sequence of tokens: 0 is one whitespace character and a   *)
(* positive number n is a word of n non-whitespace characters.             *)
(***************************************************************************)
EXTENDS Integers, Sequences, FiniteSets, TLC

\* ------------------------------------------------------------------ bounds
\* Longest caption, in words, of the layout inputs.
MaxWords == 3
\* Largest image side of the layout inputs, in hundreds of pixels.
MaxSide == 3

\* ------------------------------------------------------- program constants
max_retries == 3
retry_delay == 2
PlaceholderWidth == 800
PlaceholderHeight == 600
DefaultScreenWidth == 1920
DefaultScreenHeight == 1080
frame_padding == 10
font_size == 22
LongDescription == 300
TextPadX == 30
TextPadY == 20
DefaultFontSize == 10

\* ------------------------------------------------------------ Python values
NoneUrl == "<None>"
EmptyUrl == ""
PotdUrl == "https://upload.wikimedia.org/potd.jpg"

NoneDesc == [isNone |-> TRUE, text |-> <<>>]
Str(t) == [isNone |-> FALSE, text |-> t]

NoImage == [kind |-> "none", width |-> 0, height |-> 0]
Img(k, w, h) == [kind |-> k, width |-> w, height |-> h]

NoPath == [isNone |-> TRUE, day |-> 0]
\* os.path.join(tempfile.gettempdir(), f"wikipedia_potd_{today}.jpg")
WallpaperPath(today) == [isNone |-> FALSE, day |-> today]

\* "Wikipedia Picture of the Day"
DefaultDescription == Str(<<9, 0, 7, 0, 2, 0, 3, 0, 3>>)
\* "Wikipedia Picture of the Day could not be retrieved."
NotRetrievedDescription ==
    Str(<<9, 0, 7, 0, 2, 0, 3, 0, 3, 0, 5, 0, 3, 0, 2, 0, 10>>)

\* ------------------------------------------------------------ string helpers
RECURSIVE StrLen(_)
\* len(s)
StrLen(s) ==
    IF s = <<>> THEN 0
    ELSE (IF Head(s) = 0 THEN 1 ELSE Head(s)) + StrLen(Tail(s))

RECURSIVE LStrip(_)
LStrip(s) == IF s # <<>> /\ Head(s) = 0 THEN LStrip(Tail(s)) ELSE s

RECURSIVE RStrip(_)
RStrip(s) ==
    IF s # <<>> /\ s[Len(s)] = 0 THEN RStrip(SubSeq(s, 1, Len(s) - 1)) ELSE s

\* s.strip()
Strip(s) == RStrip(LStrip(s))

RECURSIVE CollapseWhitespace(_)
\* re.sub(r'\s+', ' ', s)
CollapseWhitespace(s) ==
    IF s = <<>> THEN <<>>
    ELSE IF Head(s) = 0
         THEN <<0>> \o CollapseWhitespace(LStrip(s))
         ELSE <<Head(s)>> \o CollapseWhitespace(Tail(s))

\* s.split(): the words of s, in order
Split(s) == SelectSeq(s, LAMBDA x : x > 0)

RECURSIVE Join(_)
\* ' '.join(words)
Join(words) ==
    IF words = <<>> THEN <<>>
    ELSE IF Len(words) = 1 THEN <<Head(words)>>
         ELSE <<Head(words), 0>> \o Join(Tail(words))

\* int(x) of the quotient n/d, d > 0: truncation toward zero
TruncDiv(n, d) == IF n >= 0 THEN n \div d ELSE -((-n) \div d)

\* ------------------------------------------------------------------ inputs
\* Outcomes Wikipedia's parse API can give fetch_image_description: text that
\* the function has stripped and whitespace-collapsed.
ApiDescriptions == { <<40, 0, 40>>, <<150, 0, 150, 0, 150>> }
\* Texts the condensation collaborator can answer with (any string).
CondensedTexts == { <<0, 40, 0, 0, 40, 0>> }
\* Images the network can serve for the picture of the day.
ServedImages == { <<1600, 900>>, <<600, 800>>, <<4000, 1>> }
\* The Wikipedia logo served for the fallback asset URL.
AssetImages == { <<1200, 1098>> }
\* date.today() at the save step
Dates == {1, 2}
\* Resolutions system_profiler can report, with the code's default.
ScreenSizes ==
    { <<DefaultScreenWidth, DefaultScreenHeight>>, <<2560, 1440>>,
      <<1280, 800>>, <<800, 600>> }

VARIABLES
    pc,             \* main: its position
    img_url,        \* main: img_url (fetch_potd: image_url)
    description,    \* main: description
    image,          \* main: image
    wallpaper_path, \* main: wallpaper_path
    saved_file,     \* the file system: the path wallpaper.save wrote
    set_arg,        \* the path set_desktop_wallpaper was called with
    stages,         \* history: the stages main has invoked, in order
    main_error,     \* the stage whose exception main's except clause caught
    potd_result,    \* history: how fetch_potd ended
    dpc,            \* download_image / create_fallback_image: position
    dl_url,         \* download_image: url
    attempt,        \* download_image: attempt
    dl_log,         \* history: requests and sleeps of the downloader
    dl_result,      \* the downloader's return value
    dl_escaped,     \* an exception left download_image
    cpc,            \* create_wallpaper: position
    cw_image,       \* create_wallpaper: image
    cw_desc,        \* create_wallpaper: description
    geo,            \* create_wallpaper: the geometry locals
    fonts,          \* create_wallpaper: which fonts were loaded
    current_font,   \* create_wallpaper: current_font, as the name it is bound to
    lines,          \* create_wallpaper: lines
    wraps,          \* history: the calls of get_wrapped_text
    text            \* create_wallpaper: line_height, total_text_height, start_y

mainVars == <<pc, img_url, description, image, wallpaper_path, saved_file,
              set_arg, stages, main_error, potd_result>>
dlVars == <<dpc, dl_url, attempt, dl_log, dl_result, dl_escaped>>
cwVars == <<cpc, cw_image, cw_desc, geo, fonts, current_font, lines, wraps, text>>
vars == <<mainVars, dlVars, cwVars>>

NoGeo == [set |-> FALSE]
NoText == [set |-> FALSE]

MainIdle ==
    /\ img_url = NoneUrl /\ description = NoneDesc /\ image = NoImage
    /\ wallpaper_path = NoPath /\ saved_file = NoPath /\ set_arg = NoPath
    /\ stages = <<>> /\ main_error = "none" /\ potd_result = "none"

DlIdle ==
    /\ dl_url = NoneUrl /\ attempt = 0 /\ dl_log = <<>>
    /\ dl_result = NoImage /\ dl_escaped = FALSE

CwIdle ==
    /\ cw_image = NoImage /\ cw_desc = NoneDesc /\ geo = NoGeo
    /\ fonts = "none" /\ current_font = "none" /\ lines = <<>>
    /\ wraps = <<>> /\ text = NoText

\* ================================================================ resolver
\* fetch_potd, first API call and the checks of its answer.
FetchPotdQuery ==
    /\ pc = "fetch"
    /\ stages' = Append(stages, "resolve")
    /\ \E r \in {"exception", "invalid", "no_images", "ok"} :
        IF r = "ok"
        THEN /\ pc' = "fetch_src"
             /\ UNCHANGED <<img_url, description, potd_result>>
        ELSE \* return None, None (lines 57, 62, 78)
             /\ img_url' = NoneUrl
             /\ description' = NoneDesc
             /\ potd_result' = r
             /\ pc' = "format"
    /\ UNCHANGED <<image, wallpaper_path, saved_file, set_arg, main_error>>
    /\ UNCHANGED <<dlVars, cwVars>>

\* fetch_image_src: the URL, or None on a missing field or an exception.
FetchImageSrc ==
    /\ pc = "fetch_src"
    /\ \E r \in {"exception", "no_imageinfo", "ok"} :
        img_url' = IF r = "ok" THEN PotdUrl ELSE NoneUrl
    /\ pc' = "fetch_desc"
    /\ UNCHANGED <<description, image, wallpaper_path, saved_file, set_arg,
                   stages, main_error, potd_result>>
    /\ UNCHANGED <<dlVars, cwVars>>

DescriptionOnFailureNone == NoneDesc

\* fetch_image_description's answer when the page cannot be parsed, the text
\* is empty or anything raises (lines 129, 160, 166).
DescriptionOnFailure == DefaultDescription

\* fetch_image_description, then fetch_potd's return image_url, description.
FetchImageDescription ==
    /\ pc = "fetch_desc"
    /\ \E r \in {"exception", "no_parse", "empty", "ok"} :
        IF r = "ok"
        THEN \E d \in ApiDescriptions : description' = Str(d)
        ELSE description' = DescriptionOnFailure
    /\ potd_result' = IF img_url = NoneUrl THEN "src_failed" ELSE "ok"
    /\ pc' = "format"
    /\ UNCHANGED <<img_url, image, wallpaper_path, saved_file, set_arg,
                   stages, main_error>>
    /\ UNCHANGED <<dlVars, cwVars>>

\* ================================================================ pipeline
\* format_description: the collaborator's text, or the argument unchanged when
\* anything raises.
FormatDescription ==
    /\ pc = "format"
    /\ stages' = Append(stages, "condense")
    /\ \/ UNCHANGED description
       \/ \E t \in CondensedTexts : description' = Str(t)
    /\ pc' = "branch"
    /\ UNCHANGED <<img_url, image, wallpaper_path, saved_file, set_arg,
                   main_error, potd_result>>
    /\ UNCHANGED <<dlVars, cwVars>>

Falsy(url) == url = NoneUrl \/ url = EmptyUrl

\* main, "if not img_url": create_fallback_image() and the fixed caption.
CallFallback ==
    /\ pc = "branch"
    /\ Falsy(img_url)
    /\ description' = NotRetrievedDescription
    /\ stages' = Append(stages, "obtain")
    /\ dpc' = "fallback"
    /\ pc' = "obtain"
    /\ UNCHANGED <<img_url, image, wallpaper_path, saved_file, set_arg,
                   main_error, potd_result>>
    /\ UNCHANGED <<dl_url, attempt, dl_log, dl_result, dl_escaped>>
    /\ UNCHANGED cwVars

\* main, else branch: len(description) for the print, then download_image.
CallDownload ==
    /\ pc = "branch"
    /\ ~Falsy(img_url)
    /\ IF description.isNone
       THEN \* len(None): TypeError, caught by main
            /\ main_error' = "obtain"
            /\ pc' = "done"
            /\ UNCHANGED <<stages, dpc, dl_url>>
       ELSE /\ stages' = Append(stages, "obtain")
            /\ dpc' = "entry"
            /\ dl_url' = img_url
            /\ pc' = "obtain"
            /\ UNCHANGED main_error
    /\ UNCHANGED <<img_url, description, image, wallpaper_path, saved_file,
                   set_arg, potd_result>>
    /\ UNCHANGED <<attempt, dl_log, dl_result, dl_escaped>>
    /\ UNCHANGED cwVars

\* The image comes back to main; an exception that left the downloader is
\* caught by main's except clause.
ReturnImage ==
    /\ pc = "obtain"
    /\ dpc \in {"returned", "raised"}
    /\ IF dpc = "returned"
       THEN /\ image' = dl_result
            /\ pc' = "composite"
            /\ UNCHANGED main_error
       ELSE /\ main_error' = "obtain"
            /\ pc' = "done"
            /\ UNCHANGED image
    /\ dpc' = "idle"
    /\ UNCHANGED <<img_url, description, wallpaper_path, saved_file, set_arg,
                   stages, potd_result>>
    /\ UNCHANGED <<dl_url, attempt, dl_log, dl_result, dl_escaped>>
    /\ UNCHANGED cwVars

\* main: image.width for the print, then create_wallpaper(image, description).
CallCreateWallpaper ==
    /\ pc = "composite"
    /\ IF image = NoImage
       THEN \* None.width: AttributeError, caught by main
            /\ main_error' = "composite"
            /\ pc' = "done"
            /\ UNCHANGED <<stages, cpc, cw_image, cw_desc>>
       ELSE /\ stages' = Append(stages, "composite")
            /\ cpc' = "entry"
            /\ cw_image' = image
            /\ cw_desc' = description
            /\ pc' = "compositing"
            /\ UNCHANGED main_error
    /\ UNCHANGED <<img_url, description, image, wallpaper_path, saved_file,
                   set_arg, potd_result>>
    /\ UNCHANGED dlVars
    /\ UNCHANGED <<geo, fonts, current_font, lines, wraps, text>>

\* The exception of create_wallpaper is swallowed and the run goes on.
ReturnWallpaperGoesOn ==
    /\ pc = "compositing"
    /\ cpc \in {"returned", "raised"}
    /\ main_error' = IF cpc = "returned" THEN main_error ELSE "composite"
    /\ pc' = "save"
    /\ cpc' = "idle"
    /\ UNCHANGED <<img_url, description, image, wallpaper_path, saved_file,
                   set_arg, stages, potd_result>>
    /\ UNCHANGED dlVars
    /\ UNCHANGED <<cw_image, cw_desc, geo, fonts, current_font, lines, wraps, text>>

\* create_wallpaper returned or raised; main's except clause ends the run on
\* an exception.
ReturnWallpaper ==
    /\ pc = "compositing"
    /\ cpc \in {"returned", "raised"}
    /\ IF cpc = "returned"
       THEN /\ pc' = "save"
            /\ UNCHANGED main_error
       ELSE /\ main_error' = "composite"
            /\ pc' = "done"
    /\ cpc' = "idle"
    /\ UNCHANGED <<img_url, description, image, wallpaper_path, saved_file,
                   set_arg, stages, potd_result>>
    /\ UNCHANGED dlVars
    /\ UNCHANGED <<cw_image, cw_desc, geo, fonts, current_font, lines, wraps, text>>

\* main: the path from today's date, then wallpaper.save(wallpaper_path, ...).
SaveWallpaper ==
    /\ pc = "save"
    /\ stages' = Append(stages, "save")
    /\ \E today \in Dates :
        /\ wallpaper_path' = WallpaperPath(today)
        /\ \/ /\ saved_file' = WallpaperPath(today)
              /\ pc' = "set"
              /\ UNCHANGED main_error
           \/ \* the write fails: OSError, caught by main
              /\ main_error' = "save"
              /\ pc' = "done"
              /\ UNCHANGED saved_file
    /\ UNCHANGED <<img_url, description, image, set_arg, potd_result>>
    /\ UNCHANGED <<dlVars, cwVars>>

\* main: set_desktop_wallpaper(wallpaper_path), which catches its own
\* exceptions and answers True or False; main prints either way.
SetDesktopWallpaper ==
    /\ pc = "set"
    /\ stages' = Append(stages, "set")
    /\ set_arg' = wallpaper_path
    /\ pc' = "done"
    /\ UNCHANGED <<img_url, description, image, wallpaper_path, saved_file,
                   main_error, potd_result>>
    /\ UNCHANGED <<dlVars, cwVars>>

\* ============================================================== downloader
GetEvent(outcome) == [ev |-> "get", outcome |-> outcome, seconds |-> 0]
SleepEvent(seconds) == [ev |-> "sleep", outcome |-> "", seconds |-> seconds]
FallbackEvent(outcome) == [ev |-> "fallback", outcome |-> outcome, seconds |-> 0]

\* download_image, "if not url": straight to create_fallback_image.
DownloadEntry ==
    /\ dpc = "entry"
    /\ attempt' = 0
    /\ dpc' = IF Falsy(dl_url) THEN "fallback" ELSE "get"
    /\ UNCHANGED <<dl_url, dl_log, dl_result, dl_escaped>>
    /\ UNCHANGED <<mainVars, cwVars>>

\* A bad status gives up at once.
OnBadStatusGivesUp(a) == "fallback"

\* response.status_code != 200 (lines 186-194): sleep and continue, or on the
\* last attempt return create_fallback_image().
OnBadStatus(a) == IF a < max_retries - 1 THEN "sleep" ELSE "fallback"

\* Image.open raised (lines 199-206): sleep and fall to the loop's end, or on
\* the last attempt return create_fallback_image().
OnDecodeError(a) == IF a < max_retries - 1 THEN "sleep" ELSE "fallback"

\* The exception of requests.get is not caught.
OnRequestExceptionUncaught(a) == "raised"

\* requests.get raised (lines 208-215): except Exception catches it; sleep, or
\* on the last attempt return create_fallback_image().
OnRequestException(a) == IF a < max_retries - 1 THEN "sleep" ELSE "fallback"

\* One iteration of the retry loop up to its sleep or return: requests.get,
\* the status check and Image.open.
DownloadAttempt ==
    /\ dpc = "get"
    /\ \E outcome \in {"exception", "status", "undecodable", "ok"} :
        /\ dl_log' = Append(dl_log, GetEvent(outcome))
        /\ IF outcome = "ok"
           THEN /\ \E d \in ServedImages :
                     dl_result' = Img("primary", d[1], d[2])
                /\ dpc' = "returned"
           ELSE /\ dpc' = CASE outcome = "status" -> OnBadStatus(attempt)
                            [] outcome = "undecodable" -> OnDecodeError(attempt)
                            [] outcome = "exception" -> OnRequestException(attempt)
                /\ UNCHANGED dl_result
    /\ dl_escaped' = (dpc' = "raised")
    /\ UNCHANGED <<dl_url, attempt>>
    /\ UNCHANGED <<mainVars, cwVars>>

\* time.sleep(retry_delay), then the for loop's next value of attempt; a loop
\* that runs out of values ends the function, which then returns None.
DownloadSleep ==
    /\ dpc = "sleep"
    /\ dl_log' = Append(dl_log, SleepEvent(retry_delay))
    /\ attempt' = attempt + 1
    /\ IF attempt + 1 < max_retries
       THEN /\ dpc' = "get"
            /\ UNCHANGED dl_result
       ELSE /\ dpc' = "returned"
            /\ dl_result' = NoImage
    /\ UNCHANGED <<dl_url, dl_escaped>>
    /\ UNCHANGED <<mainVars, cwVars>>

\* create_fallback_image: the logo, or on any exception the blank image with
\* the failure text drawn on it.
CreateFallbackImage ==
    /\ dpc = "fallback"
    /\ \E outcome \in {"exception", "undecodable", "ok"} :
        /\ dl_log' = Append(dl_log, FallbackEvent(outcome))
        /\ IF outcome = "ok"
           THEN \E d \in AssetImages : dl_result' = Img("asset", d[1], d[2])
           ELSE dl_result' = Img("placeholder", PlaceholderWidth, PlaceholderHeight)
    /\ dpc' = "returned"
    /\ UNCHANGED <<dl_url, attempt, dl_escaped>>
    /\ UNCHANGED <<mainVars, cwVars>>

\* =========================================================== layout engine
\* get_screen_size(): a reported resolution, or the default.
get_screen_size == ScreenSizes

RECURSIVE Pow2(_)
Pow2(k) == IF k = 0 THEN 1 ELSE 2 * Pow2(k - 1)

\* image.width / image.height is a double. The quotient is exact when it is a
\* multiple of a power of two small enough for the 53-bit mantissa.
ExactRatio(w, h) == \E k \in 0..12 : (w * Pow2(k)) % h = 0

\* int(a * (w / h)) and int(a / (w / h)) in doubles, a >= 0: the truncated
\* exact quotient n \div d, except that an inexact ratio can leave a quotient
\* that is a whole number just below it, which int() then truncates one lower.
FloatInt(n, d, w, h) ==
    LET q == TruncDiv(n, d)
    IN  IF n > 0 /\ n % d = 0 /\ ~ExactRatio(w, h) THEN {q, q - 1} ELSE {q}

\* Lines 246-256: border, content rectangle, caption band, image region.
Regions(screen_size) ==
    LET border_size == TruncDiv(screen_size[1] * 5, 100)
        content_width == screen_size[1] - (2 * border_size)
        content_height == screen_size[2] - (2 * border_size)
        desc_height == TruncDiv(content_height * 20, 100)
    IN  [border_size |-> border_size,
         content_width |-> content_width,
         content_height |-> content_height,
         desc_height |-> desc_height,
         region_height |-> content_height - desc_height]

\* The width check is left out.
ScaledSizeByHeightOnly(content_width, region_height, by_height, by_width) ==
    [img_width |-> by_height, img_height |-> region_height, rescaled |-> FALSE]

\* Lines 262-268: scale to the region's height, or to the content width when
\* that comes out too wide. by_height and by_width are the values int() gave.
ScaledSize(content_width, region_height, by_height, by_width) ==
    IF by_height > content_width
    THEN [img_width |-> content_width, img_height |-> by_width, rescaled |-> TRUE]
    ELSE [img_width |-> by_height, img_height |-> region_height, rescaled |-> FALSE]

\* Line 274.
ImgPosX(border_size, content_width, img_width) ==
    border_size + ((content_width - img_width) \div 2)

\* Line 275: img_height is by now the scaled height, and resized_height is
\* resized_img.height.
ImgPosY(border_size, img_height, resized_height) ==
    border_size + ((img_height - resized_height) \div 2)

\* Image.resize raises ValueError for a size with a side below 1.
ResizeRaises(img_width, img_height) == img_width < 1 \/ img_height < 1

\* Lines 244-303: screen size, regions, scaling, resize, position, frame.
Geometry ==
    /\ cpc = "entry"
    /\ \E screen_size \in get_screen_size :
        LET r == Regions(screen_size)
            w == cw_image.width
            h == cw_image.height
        IN  \E by_height \in FloatInt(r.region_height * w, h, w, h) :
            \E by_width \in IF by_height > r.content_width
                             THEN FloatInt(r.content_width * h, w, w, h)
                             ELSE {r.region_height} :
                LET s == ScaledSize(r.content_width, r.region_height,
                                    by_height, by_width)
                    x == ImgPosX(r.border_size, r.content_width, s.img_width)
                    y == ImgPosY(r.border_size, s.img_height, s.img_height)
                IN  /\ geo' = [set |-> TRUE,
                               screen_size |-> screen_size,
                               border_size |-> r.border_size,
                               content_width |-> r.content_width,
                               content_height |-> r.content_height,
                               desc_height |-> r.desc_height,
                               region_height |-> r.region_height,
                               by_height |-> by_height,
                               img_width |-> s.img_width,
                               img_height |-> s.img_height,
                               rescaled |-> s.rescaled,
                               img_pos_x |-> x,
                               img_pos_y |-> y,
                               frame_left |-> x - frame_padding,
                               frame_top |-> y - frame_padding,
                               frame_right |-> x + s.img_width + frame_padding,
                               frame_bottom |-> y + s.img_height + frame_padding]
                    /\ cpc' = IF ResizeRaises(s.img_width, s.img_height)
                              THEN "raised" ELSE "fonts"
    /\ UNCHANGED <<cw_image, cw_desc, fonts, current_font, lines, wraps, text>>
    /\ UNCHANGED <<mainVars, dlVars>>

\* Lines 305-329: the TrueType font in two sizes, or on IOError the default
\* font for both names. The default font has a size attribute or not,
\* depending on the Pillow release.
LoadFonts ==
    /\ cpc = "fonts"
    /\ \E f \in {"truetype", "default_sized", "default_bitmap"} : fonts' = f
    /\ cpc' = "wrap"
    /\ UNCHANGED <<cw_image, cw_desc, geo, current_font, lines, wraps, text>>
    /\ UNCHANGED <<mainVars, dlVars>>

\* The font object a name is bound to: after IOError small_font = font.
FontObject(loaded, name) == IF loaded = "truetype" THEN name ELSE "default"

\* font.size
FontSize(object) ==
    CASE object = "font" -> font_size
      [] object = "small_font" -> TruncDiv(font_size * 85, 100)
      [] object = "default" -> DefaultFontSize

\* Advance of one character in the font, in pixels: a fixed-pitch stand-in
\* for the metrics of the font file, smaller for the smaller sizes.
CharWidth(object) ==
    CASE object = "font" -> 11
      [] object = "small_font" -> 9
      [] object = "default" -> 6

\* draw.textbbox((0, 0), s, font=font): right - left
TextWidth(s, object) == CharWidth(object) * StrLen(s)

RECURSIVE WrapWords(_, _, _, _, _)
\* The loop of get_wrapped_text over words, and the last line after it.
WrapWords(words, current_line, out, object, max_width) ==
    IF words = <<>>
    THEN IF current_line # <<>> THEN Append(out, Join(current_line)) ELSE out
    ELSE LET word == Head(words)
             test_line == Join(Append(current_line, word))
             text_width == TextWidth(test_line, object)
         IN  IF text_width > max_width /\ current_line # <<>>
             THEN WrapWords(Tail(words), <<word>>,
                            Append(out, Join(current_line)), object, max_width)
             ELSE WrapWords(Tail(words), Append(current_line, word),
                            out, object, max_width)

RECURSIVE WrapWordsLate(_, _, _, _, _)
\* The loop measuring current_line, not test_line: a line is closed only once
\* it is already too wide.
WrapWordsLate(words, current_line, out, object, max_width) ==
    IF words = <<>>
    THEN IF current_line # <<>> THEN Append(out, Join(current_line)) ELSE out
    ELSE LET word == Head(words)
             text_width == TextWidth(Join(current_line), object)
         IN  IF text_width > max_width /\ current_line # <<>>
             THEN WrapWordsLate(Tail(words), <<word>>,
                                Append(out, Join(current_line)), object, max_width)
             ELSE WrapWordsLate(Tail(words), Append(current_line, word),
                                out, object, max_width)

get_wrapped_text_late(s, object, max_width) ==
    WrapWordsLate(Split(s), <<>>, <<>>, object, max_width)

RECURSIVE WrapWordsNoLast(_, _, _, _, _)
\* The loop without the "add the last line" step after it.
WrapWordsNoLast(words, current_line, out, object, max_width) ==
    IF words = <<>>
    THEN out
    ELSE LET word == Head(words)
             test_line == Join(Append(current_line, word))
             text_width == TextWidth(test_line, object)
         IN  IF text_width > max_width /\ current_line # <<>>
             THEN WrapWordsNoLast(Tail(words), <<word>>,
                                  Append(out, Join(current_line)), object, max_width)
             ELSE WrapWordsNoLast(Tail(words), Append(current_line, word),
                                  out, object, max_width)

get_wrapped_text_no_last(s, object, max_width) ==
    WrapWordsNoLast(Split(s), <<>>, <<>>, object, max_width)

get_wrapped_text(s, object, max_width) ==
    WrapWords(Split(s), <<>>, <<>>, object, max_width)

\* One call of get_wrapped_text: the name and the font it was given, and
\* the number of lines it returned.
WrapCall(name, object, result) ==
    [font |-> name, object |-> object, count |-> Len(result)]

\* Lines 338-340.
Normalize(s) == CollapseWhitespace(Strip(s))

\* Lines 343-346.
InitialFont(s) == IF StrLen(s) > LongDescription THEN "small_font" ELSE "font"

\* Lines 331-383: text area, clean-up of the description, first font, first
\* wrap. description.strip() raises AttributeError on None.
WrapText ==
    /\ cpc = "wrap"
    /\ IF cw_desc.isNone
       THEN /\ cpc' = "raised"
            /\ UNCHANGED <<cw_desc, current_font, lines, wraps, text>>
       ELSE LET s == Normalize(cw_desc.text)
                first == InitialFont(s)
                text_area_width == geo.content_width - 2 * TextPadX
            IN  /\ cw_desc' = Str(s)
                /\ current_font' = first
                /\ text' = [set |-> FALSE,
                            text_area_width |-> text_area_width,
                            text_area_height |-> geo.desc_height - 2 * TextPadY,
                            text_area_x |-> geo.border_size + TextPadX,
                            text_area_y |-> geo.frame_bottom + TextPadY]
                /\ lines' = get_wrapped_text(s, FontObject(fonts, first),
                                             text_area_width)
                /\ wraps' = <<WrapCall(first, FontObject(fonts, first),
                                       lines')>>
                /\ cpc' = "check"
    /\ UNCHANGED <<cw_image, geo, fonts>>
    /\ UNCHANGED <<mainVars, dlVars>>

\* Line 386: len(lines) * (font_size * 1.2) > text_area_height and
\* current_font == font. 22 * 1.2 is the double 26.4.
TooManyLines(n, text_area_height) == n * (font_size * 12) > text_area_height * 10

\* The test of current_font == font is left out.
NeedsRewrapAnyFont(n, text_area_height, loaded, current) ==
    TooManyLines(n, text_area_height)

NeedsRewrap(n, text_area_height, loaded, current) ==
    /\ TooManyLines(n, text_area_height)
    /\ FontObject(loaded, current) = FontObject(loaded, "font")

\* Lines 385-388.
CheckRewrap ==
    /\ cpc = "check"
    /\ IF NeedsRewrap(Len(lines), text.text_area_height, fonts, current_font)
       THEN /\ current_font' = "small_font"
            /\ lines' = get_wrapped_text(cw_desc.text,
                                         FontObject(fonts, "small_font"),
                                         text.text_area_width)
            /\ wraps' = Append(wraps, WrapCall("small_font",
                                               FontObject(fonts, "small_font"),
                                               lines'))
       ELSE UNCHANGED <<current_font, lines, wraps>>
    /\ cpc' = "draw"
    /\ UNCHANGED <<cw_image, cw_desc, geo, fonts, text>>
    /\ UNCHANGED <<mainVars, dlVars>>

\* Line 395.
StartY(text_area_y, text_area_height, total_text_height) ==
    text_area_y + ((text_area_height - total_text_height) \div 2)

\* Line 412.
LineX(text_area_x, text_area_width, line_width) ==
    text_area_x + ((text_area_width - line_width) \div 2)

\* Lines 390-418: line height from current_font.size (AttributeError on the
\* bitmap default font), vertical start, each line's x, and the return.
DrawText ==
    /\ cpc = "draw"
    /\ IF fonts = "default_bitmap"
       THEN /\ cpc' = "raised"
            /\ UNCHANGED text
       ELSE LET object == FontObject(fonts, current_font)
                line_height == TruncDiv(FontSize(object) * 12, 10)
                total_text_height == Len(lines) * line_height
            IN  /\ text' = [text EXCEPT !.set = TRUE] @@
                           [line_height |-> line_height,
                            total_text_height |-> total_text_height,
                            start_y |-> StartY(text.text_area_y,
                                               text.text_area_height,
                                               total_text_height),
                            xs |-> [i \in 1..Len(lines) |->
                                      LineX(text.text_area_x, text.text_area_width,
                                            TextWidth(lines[i], object))]]
                /\ cpc' = "returned"
    /\ UNCHANGED <<cw_image, cw_desc, geo, fonts, current_font, lines, wraps>>
    /\ UNCHANGED <<mainVars, dlVars>>

\* ========================================================== specifications
\* A run of main.
Init ==
    /\ pc = "fetch" /\ MainIdle
    /\ dpc = "idle" /\ DlIdle
    /\ cpc = "idle" /\ CwIdle

Next ==
    \/ FetchPotdQuery
    \/ FetchImageSrc
    \/ FetchImageDescription
    \/ FormatDescription
    \/ CallFallback
    \/ CallDownload
    \/ ReturnImage
    \/ CallCreateWallpaper
    \/ ReturnWallpaper
    \/ SaveWallpaper
    \/ SetDesktopWallpaper
    \/ DownloadEntry
    \/ DownloadAttempt
    \/ DownloadSleep
    \/ CreateFallbackImage
    \/ Geometry
    \/ LoadFonts
    \/ WrapText
    \/ CheckRewrap
    \/ DrawText

Spec == Init /\ [][Next]_vars

\* download_image(url) called on its own, for every url.
DownloadInit ==
    /\ pc = "harness" /\ MainIdle
    /\ dpc = "entry"
    /\ dl_url \in {NoneUrl, EmptyUrl, PotdUrl}
    /\ attempt = 0 /\ dl_log = <<>> /\ dl_result = NoImage /\ dl_escaped = FALSE
    /\ cpc = "idle" /\ CwIdle

DownloadNext ==
    \/ DownloadEntry
    \/ DownloadAttempt
    \/ DownloadSleep
    \/ CreateFallbackImage

DownloadSpec == DownloadInit /\ [][DownloadNext]_vars

\* create_wallpaper(image, description) called on its own, over a grid of
\* images and captions.
WordLengths == {12, 40, 150}
ImageSides == {1, 4000} \cup { 100 * k : k \in 1..MaxSide }

RECURSIVE Spaces(_)
Spaces(n) == IF n = 0 THEN <<>> ELSE <<0>> \o Spaces(n - 1)

RECURSIVE Spaced(_, _)
\* The words with runs of sep whitespace characters between them.
Spaced(words, sep) ==
    IF words = <<>> THEN <<>>
    ELSE IF Len(words) = 1 THEN <<Head(words)>>
         ELSE <<Head(words)>> \o Spaces(sep) \o Spaced(Tail(words), sep)

LayoutCaptions ==
    { Spaces(sep - 1) \o Spaced(ws, sep) \o Spaces(sep - 1) :
        ws \in UNION { [1..n -> WordLengths] : n \in 0..MaxWords },
        sep \in {1, 2} }

LayoutInit ==
    /\ pc = "harness" /\ MainIdle
    /\ dpc = "idle" /\ DlIdle
    /\ cpc = "entry"
    /\ \E w \in ImageSides, h \in ImageSides : cw_image = Img("primary", w, h)
    /\ \E s \in LayoutCaptions : cw_desc = Str(s)
    /\ geo = NoGeo /\ fonts = "none" /\ current_font = "none"
    /\ lines = <<>> /\ wraps = <<>> /\ text = NoText

LayoutNext ==
    \/ Geometry
    \/ LoadFonts
    \/ WrapText
    \/ CheckRewrap
    \/ DrawText

LayoutSpec == LayoutInit /\ [][LayoutNext]_vars

\* ================================================================== claims
Abs(x) == IF x < 0 THEN -x ELSE x

\* ---- C1 (DownloadSpec)
\* C1: for every url (None and empty included) and every outcome of every
\* request, download_image ends by returning an image that is not None, and no
\* exception leaves it: the decoded primary image, the decoded fallback asset
\* or the 800x600 placeholder. It has a next step until it has returned.
C1_AlwaysReturnsBitmap ==
    /\ dpc # "raised"
    /\ ~dl_escaped
    /\ dpc # "returned" => ENABLED DownloadNext
    /\ dpc = "returned" =>
        /\ dl_result # NoImage
        /\ dl_result.kind \in {"primary", "asset", "placeholder"}
        /\ dl_result.kind = "placeholder" =>
             dl_result.width = 800 /\ dl_result.height = 600
        /\ dl_result.kind = "primary" =>
             /\ ~Falsy(dl_url)
             /\ dl_log[Len(dl_log)] = GetEvent("ok")

\* Three failed attempts, one of them an exception, then a failed fetch of
\* the fallback asset: the placeholder comes back.
C1_Witness ==
    /\ dpc = "returned"
    /\ dl_result.kind = "placeholder"
    /\ Len(dl_log) = 6
    /\ \E i \in 1..Len(dl_log) : dl_log[i] = GetEvent("exception")

\* ---- C2 (Spec)
\* C2: a run of main whose save step does not fail writes the output file,
\* whatever fails in resolve, condense, download or composite.
C2_OutputAlwaysWritten ==
    (pc = "done" /\ main_error # "save") => ~saved_file.isNone

\* ---- C3 (Spec)
FetchPotdReturned == pc = "format"
FetchPotdFailed == potd_result \in {"exception", "invalid", "no_images", "src_failed"}

\* C3 as stated: fetch_potd never raises, and whenever it fails to obtain an
\* image it returns a null URL with a caption that is a string, never None.
C3_FailureHasCaption ==
    FetchPotdReturned =>
        /\ main_error = "none"
        /\ FetchPotdFailed => img_url = NoneUrl /\ ~description.isNone

\* C3 amended: fetch_potd never raises, and whenever it fails to obtain an
\* image it returns a null URL. The caption with it is None when fetch_potd's
\* own query failed (invalid response, no images, exception) and a string
\* (the parsed description or the default text) when only fetch_image_src
\* failed.
C3_FailureReturnsNoneUrl ==
    FetchPotdReturned =>
        /\ main_error = "none"
        /\ FetchPotdFailed =>
            /\ img_url = NoneUrl
            /\ description.isNone <=> potd_result # "src_failed"
            /\ ~description.isNone => description.text # <<>>
        /\ potd_result = "ok" => ~Falsy(img_url) /\ ~description.isNone

\* fetch_image_src failed and the description lookup answered.
C3_Witness ==
    /\ FetchPotdReturned
    /\ potd_result = "src_failed"
    /\ description \notin {NoneDesc, DefaultDescription}

\* ---- C4 (DownloadSpec)
IsGet(i) == dl_log[i].ev = "get"
FailedGet(i) == IsGet(i) /\ dl_log[i].outcome # "ok"
\* The number of GET attempts among the first i events.
GetsUpTo(i) == Cardinality({ j \in 1..i : IsGet(j) })

\* C4: for a non-empty url at most 3 GET attempts are made; an attempt that
\* fails in any of the three ways, before the third, is followed by exactly
\* one 2-second delay and then the next attempt; no delay follows the third.
\* The fallback asset is requested only right after the third attempt failed,
\* or first thing when the url is empty, and never after a success.
C4_RetrySchedule ==
    LET n == Len(dl_log)
    IN  /\ GetsUpTo(n) <= 3
        /\ Falsy(dl_url) => GetsUpTo(n) = 0
        /\ \A i \in 1..n :
            /\ (FailedGet(i) /\ GetsUpTo(i) < 3) =>
                /\ IF i = n THEN dpc = "sleep"
                   ELSE dl_log[i + 1] = [ev |-> "sleep", outcome |-> "", seconds |-> 2]
                /\ IF i + 1 = n THEN dpc = "get"
                   ELSE i + 2 <= n => IsGet(i + 2)
            /\ (FailedGet(i) /\ GetsUpTo(i) = 3) =>
                IF i = n THEN dpc = "fallback"
                ELSE dl_log[i + 1].ev = "fallback" /\ i + 1 = n
            /\ (IsGet(i) /\ ~FailedGet(i)) => i = n /\ dpc = "returned"
            /\ dl_log[i].ev = "sleep" =>
                i > 1 /\ FailedGet(i - 1) /\ GetsUpTo(i) < 3
            /\ dl_log[i].ev = "fallback" =>
                /\ i = n
                /\ IF Falsy(dl_url) THEN i = 1
                   ELSE i > 1 /\ FailedGet(i - 1) /\ GetsUpTo(i) = 3

\* A failed status, a failed decode and an exception, two delays between
\* them, and then the fallback request.
C4_Witness ==
    /\ Len(dl_log) = 6
    /\ dl_log[1] = GetEvent("status")
    /\ dl_log[3] = GetEvent("undecodable")
    /\ dl_log[5] = GetEvent("exception")
    /\ dl_log[6].ev = "fallback"

\* ---- C5 (LayoutSpec)
\* C5: the scaled image is no wider than the content width (canvas width less
\* two 5% borders) and no higher than the image region (content height less
\* the 20% caption band); when scaling by height comes out wider than the
\* content width, the final width is the content width exactly.
C5_ScaledImageFits ==
    (geo.set /\ cw_image.width > 0 /\ cw_image.height > 0) =>
        LET W == geo.screen_size[1]
            H == geo.screen_size[2]
            border == (W * 5) \div 100
            contentW == W - 2 * border
            contentH == H - 2 * border
            regionH == contentH - ((contentH * 20) \div 100)
        IN  /\ geo.img_width <= contentW
            /\ geo.img_height <= regionH
            /\ geo.by_height > contentW => geo.img_width = contentW
            /\ geo.by_height <= contentW =>
                 geo.img_width = geo.by_height /\ geo.img_height = regionH

\* An image too wide for the region was scaled by width and resized.
C5_Witness ==
    /\ cpc = "fonts"
    /\ geo.rescaled
    /\ geo.img_height > 0
    /\ geo.img_height < geo.region_height

\* ---- C6 (LayoutSpec)
\* C6: the scaled image is pasted centred in both axes within the image
\* region: left and right margins differ by at most 1 pixel, and so do the top
\* and bottom margins.
C6_ImageCentred ==
    (geo.set /\ cpc # "raised") =>
        LET left == geo.img_pos_x - geo.border_size
            right == (geo.border_size + geo.content_width)
                       - (geo.img_pos_x + geo.img_width)
            top == geo.img_pos_y - geo.border_size
            bottom == (geo.border_size + geo.region_height)
                        - (geo.img_pos_y + geo.img_height)
        IN  /\ Abs(left - right) <= 1
            /\ Abs(top - bottom) <= 1

\* ---- C7 (LayoutSpec)
Wrapped == cpc \in {"check", "draw", "returned"}
\* The measured width of line i in the font tier in effect.
LineWidth(i) == TextWidth(lines[i], FontObject(fonts, current_font))
UsableWidth == geo.content_width - 60

\* C7 as stated: every line the wrap returns measures at most the usable
\* text width (content width minus 60).
C7_EveryLineFits ==
    Wrapped => \A i \in 1..Len(lines) : LineWidth(i) <= UsableWidth

\* C7 amended: every returned line of more than one word measures at most
\* the usable text width; a line wider than that is a single word that is
\* itself wider than the usable width.
C7_MultiWordLinesFit ==
    Wrapped =>
        \A i \in 1..Len(lines) :
            LineWidth(i) > UsableWidth => Len(Split(lines[i])) = 1

\* A wrap that broke the caption and kept two words on one line.
C7_Witness ==
    /\ cpc = "returned"
    /\ Len(lines) > 1
    /\ \E i \in 1..Len(lines) : Len(Split(lines[i])) > 1

\* ---- C9 (LayoutSpec)
Selected == cpc \in {"draw", "returned"}
\* Line count x 1.2 x base size (26.4) against the caption band less 40.
OverHigh(count) == count * 264 > (geo.desc_height - 40) * 10
BaseWrapCount ==
    Len(get_wrapped_text(cw_desc.text, FontObject(fonts, "font"), UsableWidth))
SmallWhenNeeded ==
    current_font = "small_font" <=>
        (StrLen(cw_desc.text) > 300 \/ OverHigh(BaseWrapCount))

\* C9 as stated: the caption is drawn in the small tier exactly when it is
\* longer than 300 characters or its base-tier wrap is too high for the usable
\* caption height; it is wrapped at most twice; and a caption that starts in
\* the small tier is never wrapped again.
C9_TierSelection ==
    Selected =>
        /\ SmallWhenNeeded
        /\ Len(wraps) <= 2
        /\ wraps[1].font = "small_font" => Len(wraps) = 1

\* C9 amended: the same, except that a caption that starts in the small tier
\* is never wrapped again only when the TrueType font was loaded. When it was
\* not, both tiers are the one default font and a caption over 300 characters
\* whose wrap is too high is wrapped a second time with that same font.
C9_TierSelectionLoadedFont ==
    Selected =>
        /\ SmallWhenNeeded
        /\ Len(wraps) \in {1, 2}
        /\ Len(wraps) = 2 => wraps[2].font = "small_font"
        /\ (wraps[1].font = "small_font" /\ fonts = "truetype") => Len(wraps) = 1
        /\ (wraps[1].font = "small_font" /\ Len(wraps) = 2) =>
             /\ fonts # "truetype"
             /\ wraps[2].object = wraps[1].object
             /\ OverHigh(wraps[1].count)

\* A short caption whose base-tier wrap was too high and was wrapped again in
\* the small TrueType tier.
C9_Witness ==
    /\ cpc = "returned"
    /\ fonts = "truetype"
    /\ Len(wraps) = 2
    /\ wraps[1].font = "font"
    /\ current_font = "small_font"

\* ---- C10 (LayoutSpec)
\* C10: the wrapped block is vertically centred in the caption region, the
\* bottom 20% band of the content rectangle: for a block that fits, the gap
\* above the first line and the gap below the last line differ by at most 1
\* pixel, and the block lies inside the band.
C10_CaptionCentred ==
    (/\ cpc = "returned"
     /\ lines # <<>>
     /\ text.total_text_height <= geo.desc_height - 40) =>
        LET bandBottom == geo.border_size + geo.content_height
            bandTop == bandBottom - geo.desc_height
            above == text.start_y - bandTop
            below == bandBottom - (text.start_y + text.total_text_height)
        IN  /\ Abs(above - below) <= 1
            /\ above >= 0
            /\ below >= 0

\* ---- C8 (Spec)
StageOrder == <<"resolve", "condense", "obtain", "composite", "save", "set">>

\* C8: main runs its stages in the order resolve, condense, obtain image,
\* composite, save, set wallpaper, each at most once; set_desktop_wallpaper is
\* called only after the save has completed, with the path of the saved file,
\* and never in a run where composite or save failed.
C8_StageOrder ==
    /\ Len(stages) <= Len(StageOrder)
    /\ stages = SubSeq(StageOrder, 1, Len(stages))
    /\ (Len(stages) = 6 \/ ~set_arg.isNone) =>
        /\ Len(stages) = 6
        /\ ~saved_file.isNone
        /\ set_arg = saved_file
        /\ main_error = "none"
    /\ main_error \in {"composite", "save"} =>
        /\ set_arg.isNone
        /\ pc = "done"
    /\ pc = "set" => ~saved_file.isNone /\ wallpaper_path = saved_file

\* A complete run: the file is saved and handed to set_desktop_wallpaper.
C8_Witness ==
    /\ pc = "done"
    /\ Len(stages) = 6
    /\ ~set_arg.isNone
    /\ set_arg = saved_file

\* ---- C11 (LayoutSpec)
RECURSIVE JoinLines(_)
\* The lines joined with single spaces.
JoinLines(ls) ==
    IF ls = <<>> THEN <<>>
    ELSE IF Len(ls) = 1 THEN Head(ls)
         ELSE Head(ls) \o <<0>> \o JoinLines(Tail(ls))

\* A string with no whitespace at either end and no two whitespace
\* characters in a row.
IsNormalized(s) ==
    /\ s # <<>> => s[1] # 0 /\ s[Len(s)] # 0
    /\ \A i \in 1..(Len(s) - 1) : ~(s[i] = 0 /\ s[i + 1] = 0)

\* The words of s in order, as Split gives them, read off position by
\* position.
SameWords(s, t) ==
    LET ws == { i \in 1..Len(s) : s[i] > 0 }
        wt == { i \in 1..Len(t) : t[i] > 0 }
    IN  /\ Cardinality(ws) = Cardinality(wt)
        /\ \A i \in ws :
             \E j \in wt :
                /\ t[j] = s[i]
                /\ Cardinality({ k \in ws : k < i }) = Cardinality({ k \in wt : k < j })

\* C11: the greedy wrap loses and reorders nothing. After every step that
\* wraps, the returned lines joined with single spaces are the
\* whitespace-normalized caption (the words of the caption passed to
\* create_wallpaper, in order, one space between them), no line is empty, and
\* an empty or all-whitespace caption gives no lines.
C11_WrapRoundTrip ==
    [][ /\ cpc' \in {"check", "draw", "returned"} =>
            /\ JoinLines(lines') = cw_desc'.text
            /\ IsNormalized(cw_desc'.text)
            /\ \A i \in 1..Len(lines') : lines'[i] # <<>> /\ Split(lines'[i]) # <<>>
            /\ cw_desc'.text = <<>> => lines' = <<>>
        /\ (cpc = "wrap" /\ cpc' = "check") =>
            /\ SameWords(cw_desc.text, JoinLines(lines'))
            /\ Split(cw_desc.text) = <<>> => lines' = <<>>
        /\ (cpc = "check" /\ cpc' = "draw") => cw_desc' = cw_desc
      ]_vars

\* A caption of several words was wrapped into more than one line, one of
\* them of more than one word.
C11_Witness ==
    /\ cpc = "returned"
    /\ Len(lines) > 1
    /\ \E i \in 1..Len(lines) : Len(Split(lines[i])) > 1
    /\ Len(Split(cw_desc.text)) = MaxWords

====
